---- MODULE Spec2Model ----
(***************************************************************************)
(* Changelog generation engine of the doctor crate:                        *)
(*   src/src/changelog/git.rs  tag index, release ranges, commit walk      *)
(*   src/src/changelog.rs      commit classifier, author resolver          *)
(* Strings are TLA+ strings; characters are one-character strings.         *)
(***************************************************************************)
EXTENDS Integers, Sequences, FiniteSets, TLC

\* ------------------------------------------------------------------ bounds
NumCommits == 3   \* commits in the repository's graph
MaxTime == 2      \* distinct commit timestamps
MaxTags == 4      \* tags in the repository
MaxList == 3      \* commits handed to the classifier

VARIABLES
  parents,       \* repository: commit -> set of parent commits
  commit_time,   \* repository: commit -> committer timestamp
  tag_names,     \* repository: the tag names, in refname order
  tag_target,    \* repository: tag name -> the commit it peels to
  unreadable,    \* repository: commits find_commit fails on
  undecodable,   \* repository: commits whose message is not UTF-8
  package_name,  \* the package prefix handed to latest_commits / full_commits
  pc,            \* position of the running operation
  op,            \* "latest" (latest_commits) or "full" (full_commits)
  tags,          \* the filtered, sorted tag list (Ok list or Panic)
  cr_list,       \* the CommitRanges resolved so far
  walk_idx,      \* index in cr_list of the range being walked
  revwalk,       \* the walk's queue of commits still to yield
  seen,          \* commits the walk has already queued
  commits,       \* the walker's output vector
  commit_list,   \* the TagAndCommit records produced
  result,        \* what the operation returned
  in_commits,        \* classifier input: the commit_list argument
  in_package,        \* classifier input: the package argument
  github_token,      \* whether GITHUB_TOKEN is set in the environment
  author_github_map, \* Changelogs.author_github_map: author -> login
  ch_pc,             \* position of gen_change_log_by_commit_list
  idx,               \* index of the commit the for loop is at
  changelog_list,    \* the entries pushed so far
  commit_hash_map,   \* hashes already emitted
  emitted,           \* history: input position of each pushed entry
  last_rest,         \* the REST response of the loop pass just made, if any
  ch_result,         \* what gen_change_log_by_commit_list returned
  run_mode,          \* "latest" (get_change_log_list), "full"
                     \* (get_all_change_log_list), or "none": no run
  run_pc,            \* position of the run
  pkg_idx,           \* index in package_list of the package being processed
  win_idx,           \* index of the release window being rendered
  package_md,        \* get_all_change_log_list: the pieces of the package
  md_packages,       \* the MARKDOWN records pushed so far
  sections,          \* history: each window rendered and its text
  run_result         \* what the run returned

ch_vars == <<in_commits, in_package, github_token, author_github_map, ch_pc, idx,
             changelog_list, commit_hash_map, emitted, last_rest, ch_result>>

run_vars == <<run_mode, run_pc, pkg_idx, win_idx, package_md, md_packages,
              sections, run_result>>

run_vars_but_pc == <<run_mode, pkg_idx, win_idx, package_md, md_packages,
                     sections, run_result>>

repo_vars == <<parents, commit_time, tag_names, tag_target, unreadable,
               undecodable>>

git_vars == <<parents, commit_time, tag_names, tag_target, unreadable,
              undecodable, package_name, pc, op,
              tags, cr_list, walk_idx, revwalk, seen, commits, commit_list, result>>

\* ------------------------------------------------------------ string tools
\* the character at position i, "" past either end
Ch(s, i) == IF i >= 1 /\ i <= Len(s) THEN SubSeq(s, i, i) ELSE ""

\* str::starts_with
StartsWith(s, p) == Len(p) <= Len(s) /\ SubSeq(s, 1, Len(p)) = p

\* str::split(sep).collect::<Vec<&str>>() for a one-character separator
Split(s, sep) ==
  LET RECURSIVE F(_, _)
      F(i, cur) == IF i > Len(s) THEN <<cur>>
                   ELSE IF Ch(s, i) = sep THEN <<cur>> \o F(i + 1, "")
                   ELSE F(i + 1, cur \o Ch(s, i))
  IN F(1, "")

DigitChars == "0123456789"
IsDigit(c) == \E n \in 1..10 : Ch(DigitChars, n) = c
DigitVal(c) == (CHOOSE n \in 1..10 : Ch(DigitChars, n) = c) - 1

\* a numeric identifier of a semantic version: digits, no leading zero;
\* -1 when the text is not one
ParseNumeric(s) ==
  LET RECURSIVE V(_)
      V(i) == IF i = 0 THEN 0 ELSE 10 * V(i - 1) + DigitVal(Ch(s, i))
  IN IF \/ Len(s) = 0
        \/ \E i \in 1..Len(s) : ~IsDigit(Ch(s, i))
        \/ (Len(s) > 1 /\ Ch(s, 1) = "0")
     THEN -1
     ELSE V(Len(s))

\* semver::Version::parse(..).ok() on the MAJOR.MINOR.PATCH core grammar:
\* <<major, minor, patch>>, or NoVersion when the text is not a version
NoVersion == <<>>
VersionParse(s) ==
  LET parts == Split(s, ".")
  IN IF Len(parts) # 3 THEN NoVersion
     ELSE LET n == [i \in 1..3 |-> ParseNumeric(parts[i])]
          IN IF \E i \in 1..3 : n[i] = -1 THEN NoVersion ELSE n

\* Ord for Version: a.cmp(b) is Less or Equal
VersionLeq(a, b) ==
  \/ a[1] < b[1]
  \/ a[1] = b[1] /\ a[2] < b[2]
  \/ a[1] = b[1] /\ a[2] = b[2] /\ a[3] <= b[3]

\* ------------------------------------------------------------- git.rs: tags
Panic == [kind |-> "Panic"]
ErrNoTags == [kind |-> "Err", error |-> "NoTags"]
ErrGit == [kind |-> "Err", error |-> "Git"]
Ok(v) == [kind |-> "Ok", value |-> v]

\* get_version: split on '@'; get(1).unwrap() panics without a second piece
get_version(tag) ==
  LET package_list == Split(tag, "@")
  IN IF Len(package_list) < 2 THEN Panic
     ELSE Ok([package |-> "@" \o package_list[2],
              version |-> package_list[Len(package_list)]])

\* Vec::sort_by(|(_, a), (_, b)| a.cmp(b)): a stable sort of (tag, version) pairs
SortByVersion(pairs) ==
  LET RECURSIVE Ins(_, _, _)
      Ins(sorted, x, i) ==
        IF i > Len(sorted) THEN Append(sorted, x)
        ELSE IF VersionLeq(sorted[i][2], x[2]) THEN Ins(sorted, x, i + 1)
        ELSE SubSeq(sorted, 1, i - 1) \o <<x>> \o SubSeq(sorted, i, Len(sorted))
      RECURSIVE S(_)
      S(k) == IF k = 0 THEN <<>> ELSE Ins(S(k - 1), pairs[k], 1)
  IN S(Len(pairs))

\* the filter_map closure of sort_tags and get_tag_list over the tags kept by
\* the starts_with filter: Ok of the (tag, version) pairs, or Panic
VersionedTags(names) ==
  LET RECURSIVE F(_)
      F(i) ==
        IF i > Len(names) THEN Ok(<<>>)
        ELSE LET tv == get_version(names[i])
                 rest == F(i + 1)
             IN IF tv.kind = "Panic" \/ rest.kind = "Panic" THEN Panic
                ELSE LET v == VersionParse(tv.value.version)
                     IN IF v = NoVersion THEN rest
                        ELSE Ok(<<(<<names[i], v>>)>> \o rest.value)
  IN F(1)

\* .filter(|x| x.starts_with(package_name))
FilterPrefix(names, package) ==
  SelectSeq(names, LAMBDA x : StartsWith(x, package))

\* variant: the parsed tags keep their refname order
sort_tags_Unsorted(names) ==
  LET pairs == VersionedTags(names)
  IN IF pairs.kind = "Panic" THEN Panic
     ELSE Ok([i \in 1..Len(pairs.value) |-> pairs.value[i][1]])

\* sort_tags: the tags whose version parses, ascending by version
sort_tags(names) ==
  LET pairs == VersionedTags(names)
  IN IF pairs.kind = "Panic" THEN Panic
     ELSE LET s == SortByVersion(pairs.value)
          IN Ok([i \in 1..Len(s) |-> s[i][1]])

\* get_tag_list: the same over the repository's tag names
get_tag_list(names, package) ==
  LET pairs == VersionedTags(FilterPrefix(names, package))
  IN IF pairs.kind = "Panic" THEN Panic
     ELSE LET s == SortByVersion(pairs.value)
          IN Ok([i \in 1..Len(s) |-> s[i][1]])

\* ------------------------------------------------------- git.rs: revwalk
Commits == 1..NumCommits

\* ascending sequence of a set of commits (the order parents are recorded in)
SetToSeq(S) ==
  LET RECURSIVE F(_)
      F(T) == IF T = {} THEN <<>>
              ELSE LET m == CHOOSE x \in T : \A y \in T : x <= y
                   IN <<m>> \o F(T \ {m})
  IN F(S)

\* the history traversal keeps its queue newest first: a commit goes in
\* before the first queued commit that is strictly older
InsertByDate(queue, c) ==
  LET older == {i \in 1..Len(queue) : commit_time[queue[i]] < commit_time[c]}
      at == IF older = {} THEN Len(queue) + 1
            ELSE CHOOSE i \in older : \A j \in older : i <= j
  IN SubSeq(queue, 1, at - 1) \o <<c>> \o SubSeq(queue, at, Len(queue))

\* repo.revwalk() followed by push(start): the queue holds the pushed commit
RevwalkPush(start) == [queue |-> <<start>>, seen |-> {start}]

\* one next() of the walk: yields the head and queues its unseen parents
RevwalkNext(queue, seenset) ==
  LET c == Head(queue)
      ps == SetToSeq(parents[c] \ seenset)
      RECURSIVE Add(_, _)
      Add(q, i) == IF i > Len(ps) THEN q ELSE Add(InsertByDate(q, ps[i]), i + 1)
  IN [commit |-> c,
      queue |-> Add(Tail(queue), 1),
      seen |-> seenset \cup parents[c]]

\* reveals.nth(0): the first commit the walk yields
RevwalkNth0(start) ==
  LET w == RevwalkPush(start) IN RevwalkNext(w.queue, w.seen).commit

\* ------------------------------------------------------- git.rs: ranges
NoTag == <<>>
Some(x) == <<x>>

\* the second match of get_commit_latest_range / get_all_tag_range and the
\* CommitRange built from it
ResolveRange(start_str, end) ==
  LET start == tag_target[start_str]
      last == IF end = NoTag THEN RevwalkNth0(start) ELSE tag_target[end[1]]
  IN [latest_tag |-> [name |-> start_str, date_time |-> commit_time[start]],
      start |-> start,
      end |-> last]

\* get_commit_latest_range over an already sorted tag list
LatestRange(sorted) ==
  LET len == Len(sorted)
  IN IF len = 0 THEN ErrNoTags
     ELSE IF len = 1 THEN Ok(ResolveRange(sorted[len], NoTag))
     ELSE Ok(ResolveRange(sorted[len], Some(sorted[len - 1])))

get_commit_latest_range(names, package) ==
  LET sorted == sort_tags(FilterPrefix(names, package))
  IN IF sorted.kind = "Panic" THEN Panic ELSE LatestRange(sorted.value)

\* variant: the loop pairs the tags from the oldest end
RangeTags_OldestFirst(sorted, cr_list_len) ==
  <<sorted[cr_list_len + 2], Some(sorted[cr_list_len + 1])>>

\* the first match of the loop body of get_all_tag_range:
\* (tags.get(len - cr_list_len - 1), tags.get(len - cr_list_len - 2) or None)
RangeTags(sorted, cr_list_len) ==
  LET len == Len(sorted)
  IN IF len = 1 THEN <<sorted[len - cr_list_len], NoTag>>
     ELSE <<sorted[len - cr_list_len], Some(sorted[len - cr_list_len - 1])>>

\* end.parent(0) is Err
end_is_first_commit(end) == parents[end] = {}

\* variant: the break ignores the root exemption
WalkBreaks_AlwaysAtEnd(end, commit) == end = commit

\* the break test of get_commit_list_by_commit_range
WalkBreaks(end, commit) == end = commit /\ ~end_is_first_commit(end)

\* filter_map(|id| repo.find_commit(id.ok()?).ok()): an id whose commit
\* cannot be read yields None and the iterator passes over it
FilterMapDrops(commit) == commit \in unreadable

\* commit.message() is None
MessageIsNone(commit) == commit \in undecodable

\* ------------------------------------------------------------ git.rs: steps
\* latest_commits: get_commit_latest_range, then the walk
LatestCommits ==
  /\ pc = "start"
  /\ run_mode \in {"none", "latest"}
  /\ op' = "latest"
  /\ tags' = sort_tags(FilterPrefix(tag_names, package_name))
  /\ LET cr == get_commit_latest_range(tag_names, package_name)
     IN IF cr.kind = "Ok"
        THEN /\ cr_list' = <<cr.value>>
             /\ pc' = "walk_begin"
             /\ result' = result
        ELSE /\ cr_list' = <<>>
             /\ pc' = "done"
             /\ result' = cr
  /\ UNCHANGED <<unreadable, undecodable>>
  /\ UNCHANGED <<parents, commit_time, tag_names, tag_target, package_name,
                 walk_idx, revwalk, seen, commits, commit_list>>
  /\ UNCHANGED <<ch_vars, run_vars>>

\* full_commits entering get_all_tag_range: get_tag_list
FullCommits ==
  /\ pc = "start"
  /\ run_mode \in {"none", "full"}
  /\ op' = "full"
  /\ tags' = get_tag_list(tag_names, package_name)
  /\ IF tags'.kind = "Panic"
     THEN pc' = "done" /\ result' = Panic
     ELSE pc' = "ranges" /\ result' = result
  /\ UNCHANGED <<unreadable, undecodable>>
  /\ UNCHANGED <<parents, commit_time, tag_names, tag_target, package_name,
                 cr_list, walk_idx, revwalk, seen, commits, commit_list>>
  /\ UNCHANGED <<ch_vars, run_vars>>

\* `cr_list.len() < len - 1` on usize with len = 0: a build with overflow
\* checks panics on the subtraction
AllTagRange_Overflow ==
  /\ pc = "ranges"
  /\ Len(tags.value) = 0
  /\ pc' = "done"
  /\ result' = Panic
  /\ UNCHANGED <<unreadable, undecodable>>
  /\ UNCHANGED <<parents, commit_time, tag_names, tag_target, package_name, op,
                 tags, cr_list, walk_idx, revwalk, seen, commits, commit_list>>
  /\ UNCHANGED <<ch_vars, run_vars>>

\* one pass of the while loop of get_all_tag_range; with len = 0 and no
\* overflow check len - 1 wraps to the largest usize and the body returns NoTags
AllTagRange_Loop ==
  /\ pc = "ranges"
  /\ LET len == Len(tags.value)
     IN IF len = 0
        THEN /\ pc' = "done"
             /\ result' = ErrNoTags
             /\ cr_list' = cr_list
        ELSE /\ Len(cr_list) < len - 1
             /\ LET se == RangeTags(tags.value, Len(cr_list))
                IN cr_list' = Append(cr_list, ResolveRange(se[1], se[2]))
             /\ UNCHANGED <<pc, result>>
  /\ UNCHANGED <<unreadable, undecodable>>
  /\ UNCHANGED <<parents, commit_time, tag_names, tag_target, package_name, op,
                 tags, walk_idx, revwalk, seen, commits, commit_list>>
  /\ UNCHANGED <<ch_vars, run_vars>>

\* the loop test fails: Ok(cr_list), and full_commits starts on the ranges
AllTagRange_Return ==
  /\ pc = "ranges"
  /\ Len(tags.value) > 0
  /\ ~(Len(cr_list) < Len(tags.value) - 1)
  /\ pc' = "walk_begin"
  /\ UNCHANGED <<unreadable, undecodable>>
  /\ UNCHANGED <<parents, commit_time, tag_names, tag_target, package_name, op,
                 tags, cr_list, walk_idx, revwalk, seen, commits, commit_list,
                 result>>
  /\ UNCHANGED <<ch_vars, run_vars>>

\* get_commit_list_by_commit_range up to the for loop, for the next range;
\* or the end of the caller's loop over the ranges
Walk_Begin ==
  /\ pc = "walk_begin"
  /\ IF walk_idx > Len(cr_list)
     THEN /\ pc' = "done"
          /\ result' = Ok("commits")
          /\ UNCHANGED <<revwalk, seen, commits>>
     ELSE /\ LET w == RevwalkPush(cr_list[walk_idx].start)
             IN revwalk' = w.queue /\ seen' = w.seen
          /\ commits' = <<>>
          /\ pc' = "walking"
          /\ result' = result
  /\ UNCHANGED <<unreadable, undecodable>>
  /\ UNCHANGED <<parents, commit_time, tag_names, tag_target, package_name, op,
                 tags, cr_list, walk_idx, commit_list>>
  /\ UNCHANGED <<ch_vars, run_vars>>

\* one pass of the for loop over the revwalk
Walk_Next ==
  /\ pc = "walking"
  /\ IF revwalk = <<>>
     THEN /\ pc' = "walk_return"
          /\ UNCHANGED <<revwalk, seen, commits>>
     ELSE LET n == RevwalkNext(revwalk, seen)
          IN /\ revwalk' = n.queue
             /\ seen' = n.seen
             /\ IF FilterMapDrops(n.commit)
                THEN pc' = "walking" /\ commits' = commits
                ELSE IF WalkBreaks(cr_list[walk_idx].end, n.commit)
                THEN pc' = "walk_return" /\ commits' = commits
                ELSE IF MessageIsNone(n.commit)
                THEN pc' = "walk_failed" /\ commits' = commits
                ELSE pc' = "walking" /\ commits' = Append(commits, n.commit)
  /\ UNCHANGED <<unreadable, undecodable>>
  /\ UNCHANGED <<parents, commit_time, tag_names, tag_target, package_name, op,
                 tags, cr_list, walk_idx, commit_list, result>>
  /\ UNCHANGED <<ch_vars, run_vars>>

\* the walker returned Err(Git) and the caller's unwrap() panics
Walk_Unwrap ==
  /\ pc = "walk_failed"
  /\ pc' = "done"
  /\ result' = Panic
  /\ UNCHANGED <<unreadable, undecodable>>
  /\ UNCHANGED <<parents, commit_time, tag_names, tag_target, package_name, op,
                 tags, cr_list, walk_idx, revwalk, seen, commits, commit_list>>
  /\ UNCHANGED <<ch_vars, run_vars>>

\* Ok(commits), and the caller records the tag with its commits
Walk_Return ==
  /\ pc = "walk_return"
  /\ commit_list' = Append(commit_list,
                           [tag |-> cr_list[walk_idx].latest_tag,
                            commit_list |-> commits])
  /\ walk_idx' = walk_idx + 1
  /\ pc' = "walk_begin"
  /\ UNCHANGED <<unreadable, undecodable>>
  /\ UNCHANGED <<parents, commit_time, tag_names, tag_target, package_name, op,
                 tags, cr_list, revwalk, seen, commits, result>>
  /\ UNCHANGED <<ch_vars, run_vars>>

\* ------------------------------------------------- changelog.rs: strings
LowerChars == "abcdefghijklmnopqrstuvwxyz"
UpperChars == "ABCDEFGHIJKLMNOPQRSTUVWXYZ"
IsLower(c) == \E n \in 1..26 : Ch(LowerChars, n) = c
IsUpper(c) == \E n \in 1..26 : Ch(UpperChars, n) = c

\* str::to_lowercase on ASCII text
ToLower(s) ==
  LET L(c) == IF IsUpper(c)
              THEN Ch(LowerChars, CHOOSE n \in 1..26 : Ch(UpperChars, n) = c)
              ELSE c
      RECURSIVE F(_)
      F(i) == IF i > Len(s) THEN "" ELSE L(Ch(s, i)) \o F(i + 1)
  IN F(1)

\* str::trim on spaces
Trim(s) ==
  LET keep == {i \in 1..Len(s) : Ch(s, i) # " "}
  IN IF keep = {} THEN ""
     ELSE SubSeq(s, CHOOSE i \in keep : \A j \in keep : i <= j,
                    CHOOSE i \in keep : \A j \in keep : i >= j)

\* str::replace(from, "") for a one-character pattern
Remove(s, from) ==
  LET RECURSIVE F(_)
      F(i) == IF i > Len(s) THEN ""
              ELSE (IF Ch(s, i) = from THEN "" ELSE Ch(s, i)) \o F(i + 1)
  IN F(1)

\* message.split("\n").nth(0)
FirstLine(message) == Split(message, "\n")[1]

\* end of the longest run of characters satisfying Cls that starts at i
\* (i - 1 when the run is empty)
RunEnd(s, i, Cls(_)) ==
  LET RECURSIVE F(_)
      F(j) == IF j <= Len(s) /\ Cls(Ch(s, j)) THEN F(j + 1) ELSE j - 1
  IN F(i)

\* the character class [fix|feat] of the scope pattern
IsTypeClassChar(c) == c \in {"f", "i", "x", "|", "e", "a", "t"}
\* the character class [0-9a-zA-Z_]
IsWordChar(c) == IsDigit(c) \/ IsLower(c) \/ IsUpper(c) \/ c = "_"

\* positions where r"[fix|feat]\(([0-9a-zA-Z_]*)\)" matches: a class character,
\* '(', a run of word characters, ')'
ScopeMatchesAt(message) ==
  {i \in 1..Len(message) :
     /\ IsTypeClassChar(Ch(message, i))
     /\ Ch(message, i + 1) = "("
     /\ Ch(message, RunEnd(message, i + 2, IsWordChar) + 1) = ")"}

\* re.is_match(message) and captures(message).index(1) of the leftmost match
ScopeIsMatch(message) == ScopeMatchesAt(message) # {}
ScopeCapture(message) ==
  LET i == CHOOSE k \in ScopeMatchesAt(message) :
                  \A j \in ScopeMatchesAt(message) : k <= j
  IN SubSeq(message, i + 2, RunEnd(message, i + 2, IsWordChar))

\* positions where r"\(#[0-9]*\)" matches, and the text of the leftmost match
PrMatchesAt(message) ==
  {i \in 1..Len(message) :
     /\ Ch(message, i) = "("
     /\ Ch(message, i + 1) = "#"
     /\ Ch(message, RunEnd(message, i + 2, IsDigit) + 1) = ")"}
PrIsMatch(message) == PrMatchesAt(message) # {}
PrCapture(message) ==
  LET i == CHOOSE k \in PrMatchesAt(message) : \A j \in PrMatchesAt(message) : k <= j
  IN SubSeq(message, i, RunEnd(message, i + 2, IsDigit) + 1)

\* --------------------------------------------- changelog.rs: AuthorResolver
github_html_url == "https://github.com/o/r"
NoAuthor == [some |-> FALSE]
Author(name) == [some |-> TRUE, name |-> name]

\* REST responses: send() fails; the body does not deserialize (an error or
\* rate-limit body); a pull request with its submitter's login
SendFailed == [rest |-> "send_failed"]
JsonFailed == [rest |-> "json_failed"]
NoRest == [rest |-> "none"]
Pull(login) == [rest |-> "pull", login |-> login]
Logins == {"alice", "zed"}
Responses == {SendFailed, JsonFailed} \cup {Pull(l) : l \in Logins}

\* get_pr_user_name with a lookup that replaces an entry already cached
get_pr_user_name_Overwrites(map, pr_number, author, token, response) ==
  IF author \notin DOMAIN map
  THEN IF ~token THEN Panic
       ELSE IF response = SendFailed THEN Panic
       ELSE IF response.rest = "pull"
       THEN [kind |-> "Ok", value |-> response.login,
             map |-> (author :> response.login) @@ map]
       ELSE [kind |-> "Ok", value |-> author, map |-> map]
  ELSE [kind |-> "Ok", value |-> pr_number,
        map |-> (author :> pr_number) @@ map]

\* get_pr_user_name: the handle and the cache afterwards, or Panic
get_pr_user_name(map, pr_number, author, token, response) ==
  IF author \notin DOMAIN map
  THEN IF ~token THEN Panic
       ELSE IF response = SendFailed THEN Panic
       ELSE IF response.rest = "pull"
       THEN [kind |-> "Ok", value |-> response.login,
             map |-> (author :> response.login) @@ map]
       ELSE [kind |-> "Ok", value |-> author, map |-> map]
  ELSE [kind |-> "Ok", value |-> map[author], map |-> map]

\* get_md_message: the entry and the cache afterwards, or Panic
get_md_message(map, commit, token, response) ==
  LET message == Trim(FirstLine(commit.message))
  IN IF ~commit.author.some THEN Panic
     ELSE LET author == commit.author.name
              short_md_hash == SubSeq(Trim(commit.hash), 1, 7)
          IN IF PrIsMatch(message)
             THEN LET pr_id == Remove(Remove(PrCapture(message), "("), ")")
                      user == get_pr_user_name(map, pr_id, author, token, response)
                      pr_url == github_html_url \o "/pull/" \o pr_id
                  IN IF user.kind = "Panic" THEN Panic
                     ELSE [kind |-> "Ok",
                           value |-> message \o ". [" \o pr_id \o "](" \o pr_url
                                     \o ") [@" \o user.value
                                     \o "](https://github.com/" \o user.value \o ")",
                           map |-> user.map]
             ELSE [kind |-> "Ok",
                   value |-> message \o ". [" \o short_md_hash \o "]("
                             \o github_html_url \o "/commit/" \o short_md_hash \o ")",
                   map |-> map]

\* whether get_md_message reaches the REST call for this commit
NeedsLookup(map, commit, token) ==
  /\ commit.author.some
  /\ PrIsMatch(Trim(FirstLine(commit.message)))
  /\ commit.author.name \notin DOMAIN map
  /\ token

\* ------------------------------------------- changelog.rs: CommitClassifier
\* need_insert_message: the scope pattern matches and its captured scope,
\* lowercased, equals the package
need_insert_message(message, package) ==
  ScopeIsMatch(message) /\ ToLower(ScopeCapture(message)) = package

\* variant: the hash check never finds the hash
AlreadyEmitted_Never(hash_map, hash) == FALSE

\* commit_hash_map.get(&hash).is_some()
AlreadyEmitted(hash_map, hash) == hash \in hash_map

\* one pass of the for loop of gen_change_log_by_commit_list
Classify_Next ==
  /\ ch_pc = "loop"
  /\ idx <= Len(in_commits)
  /\ LET commit == in_commits[idx]
         message == FirstLine(commit.message)
     IN IF need_insert_message(message, in_package)
           /\ ~AlreadyEmitted(commit_hash_map, commit.hash)
        THEN \E response \in Responses \cup {NoRest} :
               /\ (response = NoRest) <=>
                    ~NeedsLookup(author_github_map, commit, github_token)
               /\ last_rest' = response
               /\ LET md == get_md_message(author_github_map, commit,
                                           github_token, response)
                  IN IF md.kind = "Panic"
                     THEN /\ ch_pc' = "done"
                          /\ ch_result' = Panic
                          /\ UNCHANGED <<idx, changelog_list, commit_hash_map,
                                         emitted, author_github_map>>
                     ELSE /\ changelog_list' = Append(changelog_list, md.value)
                          /\ commit_hash_map' = commit_hash_map \cup {commit.hash}
                          /\ emitted' = Append(emitted, idx)
                          /\ author_github_map' = md.map
                          /\ idx' = idx + 1
                          /\ UNCHANGED <<ch_pc, ch_result>>
        ELSE /\ idx' = idx + 1
             /\ last_rest' = NoRest
             /\ UNCHANGED <<ch_pc, ch_result, changelog_list, commit_hash_map,
                            emitted, author_github_map>>
  /\ UNCHANGED <<in_commits, in_package, github_token>>
  /\ UNCHANGED <<git_vars, run_vars>>

\* the loop is over: Ok(changelog_list)
Classify_Return ==
  /\ ch_pc = "loop"
  /\ idx > Len(in_commits)
  /\ ch_pc' = "done"
  /\ ch_result' = Ok("changelog_list")
  /\ last_rest' = NoRest
  /\ UNCHANGED <<in_commits, in_package, github_token, author_github_map, idx,
                 changelog_list, commit_hash_map, emitted>>
  /\ UNCHANGED <<git_vars, run_vars>>


\* ------------------------------------------- changelog.rs: MarkdownComposer
\* the first packages of the package_list of both entry points
package_list == <<"components", "utils">>

package_prefix == "@ant-design/pro-"

\* the Commit record the walker builds for a commit of the history
CommitHashes == <<"1111111a", "2222222b", "3333333c", "4444444d", "5555555e">>
CommitMessages ==
  <<"fix(components): a", "feat(utils): b (#42)", "docs: c",
    "fix(utils): d (#9)", "feat(components): e">>
CommitRecord(c) ==
  [hash |-> CommitHashes[c], message |-> CommitMessages[c],
   author |-> Author("bob")]

\* format("%Y-%m-%d") of the tagged commit's time
DateText(t) == "2024-01-0" \o Ch(DigitChars, t + 1)

\* the grave accent around the date, written here as an apostrophe
Backtick == "'"

\* format!("`{date_time}`\n\n")
DateLine(tag) == Backtick \o DateText(tag.date_time) \o Backtick \o "\n\n"

\* gen_change_log_to_md: one `* <entry>` line per entry
gen_change_log_to_md(change_logs) ==
  LET RECURSIVE F(_)
      F(i) == IF i > Len(change_logs) THEN ""
              ELSE "* " \o change_logs[i] \o "\n" \o F(i + 1)
  IN F(1)

\* join(""): the pieces one after the other
Join(pieces) ==
  LET RECURSIVE F(_)
      F(i) == IF i > Len(pieces) THEN "" ELSE pieces[i] \o F(i + 1)
  IN F(1)

\* the heading get_change_log_list writes, for the components package only
LatestHeading(package, tag) ==
  IF package = "components"
  THEN <<"## " \o tag.name \o "\n\n", DateLine(tag)>>
  ELSE <<>>

\* the heading get_all_change_log_list writes, for the components package only
FullHeading(package, tag) ==
  IF package = "components"
  THEN <<"\n## " \o tag.name \o "\n\n", DateLine(tag)>>
  ELSE <<>>

\* the top of the loop over package_list: the call of latest_commits or
\* full_commits for the next package
Run_CallGit ==
  /\ run_pc = "package"
  /\ pkg_idx <= Len(package_list)
  /\ package_name' = package_prefix \o package_list[pkg_idx]
  /\ pc' = "start"
  /\ op' = "none"
  /\ tags' = Ok(<<>>)
  /\ cr_list' = <<>>
  /\ walk_idx' = 1
  /\ revwalk' = <<>>
  /\ seen' = {}
  /\ commits' = <<>>
  /\ commit_list' = <<>>
  /\ result' = [kind |-> "None"]
  /\ package_md' = <<>>
  /\ run_pc' = "git"
  /\ UNCHANGED <<run_mode, pkg_idx, win_idx, md_packages, sections, run_result>>
  /\ UNCHANGED <<repo_vars, ch_vars>>

\* expect() on what latest_commits or full_commits returned
Run_Expect ==
  /\ run_pc = "git"
  /\ pc = "done"
  /\ IF result.kind = "Ok"
     THEN run_pc' = "window" /\ run_result' = run_result
     ELSE run_pc' = "done" /\ run_result' = Panic
  /\ win_idx' = 1
  /\ UNCHANGED <<run_mode, pkg_idx, package_md, md_packages, sections>>
  /\ UNCHANGED <<git_vars, ch_vars>>

\* the call of gen_change_log_by_commit_list for a window's commits
Run_Classify ==
  /\ run_pc = "window"
  /\ win_idx <= Len(commit_list)
  /\ LET cs == commit_list[win_idx].commit_list
     IN in_commits' = [i \in 1..Len(cs) |-> CommitRecord(cs[i])]
  /\ in_package' = package_list[pkg_idx]
  /\ ch_pc' = "loop"
  /\ idx' = 1
  /\ changelog_list' = <<>>
  /\ commit_hash_map' = {}
  /\ emitted' = <<>>
  /\ last_rest' = NoRest
  /\ ch_result' = [kind |-> "None"]
  /\ run_pc' = "classify"
  /\ UNCHANGED <<github_token, author_github_map>>
  /\ UNCHANGED <<git_vars, run_vars_but_pc>>

\* get_change_log_list after the classifier: heading, body, push
Run_ComposeLatest ==
  /\ run_pc = "classify"
  /\ run_mode = "latest"
  /\ ch_pc = "done"
  /\ IF ch_result.kind = "Ok"
     THEN LET package == package_list[pkg_idx]
              tag == commit_list[win_idx].tag
              body == gen_change_log_to_md(changelog_list)
              md_file_content == Join(LatestHeading(package, tag)) \o body
          IN /\ md_packages' = Append(md_packages,
                                      [package |-> package,
                                       content |-> md_file_content])
             /\ sections' = Append(sections,
                                   [package |-> package, tag |-> tag,
                                    entries |-> changelog_list,
                                    body |-> body, text |-> md_file_content])
             /\ pkg_idx' = pkg_idx + 1
             /\ run_pc' = "package"
             /\ run_result' = run_result
     ELSE /\ run_pc' = "done"
          /\ run_result' = Panic
          /\ UNCHANGED <<md_packages, sections, pkg_idx>>
  /\ UNCHANGED <<run_mode, win_idx, package_md>>
  /\ UNCHANGED <<git_vars, ch_vars>>

\* get_all_change_log_list after the classifier: heading and body pushed
Run_ComposeFull ==
  /\ run_pc = "classify"
  /\ run_mode = "full"
  /\ ch_pc = "done"
  /\ IF ch_result.kind = "Ok"
     THEN LET package == package_list[pkg_idx]
              tag == commit_list[win_idx].tag
              md_file_content == gen_change_log_to_md(changelog_list)
              pushed == FullHeading(package, tag) \o <<md_file_content>>
          IN /\ package_md' = package_md \o pushed
             /\ sections' = Append(sections,
                                   [package |-> package, tag |-> tag,
                                    entries |-> changelog_list,
                                    body |-> md_file_content,
                                    text |-> Join(pushed)])
             /\ win_idx' = win_idx + 1
             /\ run_pc' = "window"
             /\ run_result' = run_result
     ELSE /\ run_pc' = "done"
          /\ run_result' = Panic
          /\ UNCHANGED <<package_md, sections, win_idx>>
  /\ UNCHANGED <<run_mode, pkg_idx, md_packages>>
  /\ UNCHANGED <<git_vars, ch_vars>>

\* get_all_change_log_list after the last window: the package's MARKDOWN
Run_PackageDone ==
  /\ run_pc = "window"
  /\ win_idx > Len(commit_list)
  /\ md_packages' = Append(md_packages,
                           [package |-> package_list[pkg_idx],
                            content |-> Join(package_md)])
  /\ pkg_idx' = pkg_idx + 1
  /\ run_pc' = "package"
  /\ UNCHANGED <<run_mode, win_idx, package_md, sections, run_result>>
  /\ UNCHANGED <<git_vars, ch_vars>>

\* the loop over package_list is over: md_packages
Run_Return ==
  /\ run_pc = "package"
  /\ pkg_idx > Len(package_list)
  /\ run_pc' = "done"
  /\ run_result' = Ok("md_packages")
  /\ UNCHANGED <<run_mode, pkg_idx, win_idx, package_md, md_packages, sections>>
  /\ UNCHANGED <<git_vars, ch_vars>>

\* ------------------------------------------------------- classifier inputs
CommitUniverse ==
  {[hash |-> "1111111a", message |-> "fix(pkg): a\nbody", author |-> Author("bob")],
   [hash |-> "2222222b", message |-> "feat(PKG): b (#42)", author |-> Author("bob")],
   [hash |-> "3333333c", message |-> "fix(pkg-a): c (#7)", author |-> Author("eve")],
   [hash |-> "4444444d", message |-> "docs: d", author |-> Author("eve")],
   [hash |-> "5555555e", message |-> "chore(pkg): e", author |-> NoAuthor],
   [hash |-> "6666666f", message |-> "fix(pkg): f (#9)", author |-> Author("bob")]}
Packages == {"pkg", "Pkg", "pkg-a"}

SeqsUpTo(S, n) == UNION {[1..k -> S] : k \in 0..n}

ChangelogIdle ==
  /\ in_commits = <<>>
  /\ in_package = ""
  /\ github_token = TRUE
  /\ author_github_map = [a \in {} |-> ""]
  /\ ch_pc = "idle"
  /\ idx = 1
  /\ changelog_list = <<>>
  /\ commit_hash_map = {}
  /\ emitted = <<>>
  /\ last_rest = NoRest
  /\ ch_result = [kind |-> "None"]

\* a fresh Changelogs entering gen_change_log_by_commit_list
InitChangelog ==
  /\ in_commits \in SeqsUpTo(CommitUniverse, MaxList)
  /\ in_package \in Packages
  /\ github_token \in BOOLEAN
  /\ author_github_map = [a \in {} |-> ""]
  /\ ch_pc = "loop"
  /\ idx = 1
  /\ changelog_list = <<>>
  /\ commit_hash_map = {}
  /\ emitted = <<>>
  /\ last_rest = NoRest
  /\ ch_result = [kind |-> "None"]

\* ------------------------------------------------------------- repositories
\* tag names a repository may carry, in refname order
TagUniverse == <<"@p@1.0.0", "@p@1.10.0", "@p@1.2.0", "@p@x", "@pq@1.0.0",
                 "@q@2.0.0", "v1.0.0">>
Prefixes == {"@p", "@q", "v"}

TagSeq(S) == SelectSeq(TagUniverse, LAMBDA t : t \in S)
IndexOf(t) == CHOOSE i \in 1..Len(TagUniverse) : TagUniverse[i] = t
Range(f) == {f[i] : i \in DOMAIN f}

Graphs == {g \in [Commits -> SUBSET Commits] :
             \A c \in Commits : (\A q \in g[c] : q < c) /\ Cardinality(g[c]) <= 2}

GitIdle ==
  /\ pc = "start"
  /\ op = "none"
  /\ tags = Ok(<<>>)
  /\ cr_list = <<>>
  /\ walk_idx = 1
  /\ revwalk = <<>>
  /\ seen = {}
  /\ commits = <<>>
  /\ commit_list = <<>>
  /\ result = [kind |-> "None"]

\* any tag set on a linear history
InitTagSets ==
  /\ parents = [c \in Commits |-> IF c = 1 THEN {} ELSE {c - 1}]
  /\ commit_time = [c \in Commits |-> IF c < MaxTime THEN c ELSE MaxTime]
  /\ \E S \in SUBSET Range(TagUniverse) :
       /\ Cardinality(S) <= MaxTags
       /\ tag_names = TagSeq(S)
       /\ tag_target = [t \in S |-> ((IndexOf(t) - 1) % NumCommits) + 1]
  /\ package_name \in Prefixes
  /\ unreadable = {}
  /\ undecodable = {}
  /\ GitIdle

\* one or two release tags anywhere on any history
InitGraphs ==
  /\ parents \in Graphs
  /\ commit_time \in [Commits -> 1..MaxTime]
  /\ \E k \in 1..MaxTime : Range(commit_time) = 1..k  \* only the order of times matters
  /\ \E S \in {{"@p@1.0.0"}, {"@p@1.0.0", "@p@1.2.0"}} :
       /\ tag_names = TagSeq(S)
       /\ tag_target \in [S -> Commits]
  /\ package_name = "@p"
  /\ unreadable = {}
  /\ undecodable = {}
  /\ GitIdle

\* a linear history some of whose commits cannot be read or decoded, with
\* up to two release tags on commits that can be read
InitDamaged ==
  /\ parents = [c \in Commits |-> IF c = 1 THEN {} ELSE {c - 1}]
  /\ commit_time = [c \in Commits |-> IF c < MaxTime THEN c ELSE MaxTime]
  /\ \E S \in SUBSET {"@p@1.0.0", "@p@1.2.0"} :
       /\ tag_names = TagSeq(S)
       /\ tag_target \in [S -> Commits]
  /\ package_name = "@p"
  /\ unreadable \in SUBSET (Commits \ Range(tag_target))  \* the tags peel
  /\ undecodable \in SUBSET Commits
  /\ GitIdle

\* a repository with nothing running on it
GitParked ==
  /\ parents = [c \in Commits |-> {}]
  /\ commit_time = [c \in Commits |-> 1]
  /\ tag_names = <<>>
  /\ tag_target = [t \in {} |-> 1]
  /\ unreadable = {}
  /\ undecodable = {}
  /\ package_name = ""
  /\ pc = "done"
  /\ op = "none"
  /\ tags = Ok(<<>>)
  /\ cr_list = <<>>
  /\ walk_idx = 1
  /\ revwalk = <<>>
  /\ seen = {}
  /\ commits = <<>>
  /\ commit_list = <<>>
  /\ result = [kind |-> "None"]

\* no run of the changelog generator is going on
RunParked ==
  /\ run_mode = "none"
  /\ run_pc = "idle"
  /\ pkg_idx = 1
  /\ win_idx = 1
  /\ package_md = <<>>
  /\ md_packages = <<>>
  /\ sections = <<>>
  /\ run_result = [kind |-> "None"]

Init == (InitTagSets \/ InitGraphs) /\ ChangelogIdle /\ RunParked

Next ==
  \/ LatestCommits
  \/ FullCommits
  \/ AllTagRange_Overflow
  \/ AllTagRange_Loop
  \/ AllTagRange_Return
  \/ Walk_Begin
  \/ Walk_Next
  \/ Walk_Return

vars == <<git_vars, ch_vars, run_vars>>

\* latest_commits and full_commits on a repository all of whose commits
\* can be read and decoded
Spec == Init /\ [][Next]_vars

NextDamaged ==
  \/ LatestCommits
  \/ FullCommits
  \/ AllTagRange_Overflow
  \/ AllTagRange_Loop
  \/ AllTagRange_Return
  \/ Walk_Begin
  \/ Walk_Next
  \/ Walk_Unwrap
  \/ Walk_Return

InitDmg == InitDamaged /\ ChangelogIdle /\ RunParked

\* latest_commits and full_commits on a repository with damaged commits
SpecDamaged == InitDmg /\ [][NextDamaged]_vars

InitCl == InitChangelog /\ GitParked /\ RunParked

NextCl ==
  \/ Classify_Next
  \/ Classify_Return

\* gen_change_log_by_commit_list on a commit list
SpecChangelog == InitCl /\ [][NextCl]_vars

\* the release tags of the two packages on a linear history
RunTagUniverse ==
  <<package_prefix \o "components@1.0.0", package_prefix \o "components@1.1.0",
    package_prefix \o "utils@1.0.0", package_prefix \o "utils@1.1.0">>

\* a fresh Changelogs entering get_change_log_list or get_all_change_log_list
\* on a repository whose x.0.0 tags sit on the root and x.1.0 tags on the head
InitRun ==
  /\ parents = [c \in Commits |-> IF c = 1 THEN {} ELSE {c - 1}]
  /\ commit_time = [c \in Commits |-> IF c < MaxTime THEN c ELSE MaxTime]
  /\ \E S \in SUBSET Range(RunTagUniverse) :
       /\ Cardinality(S) <= MaxTags
       /\ tag_names = SelectSeq(RunTagUniverse, LAMBDA t : t \in S)
       /\ tag_target = [t \in S |-> IF t \in {RunTagUniverse[1], RunTagUniverse[3]}
                                    THEN 1 ELSE NumCommits]
  /\ unreadable = {}
  /\ undecodable = {}
  /\ package_name = ""
  /\ pc = "done"
  /\ op = "none"
  /\ tags = Ok(<<>>)
  /\ cr_list = <<>>
  /\ walk_idx = 1
  /\ revwalk = <<>>
  /\ seen = {}
  /\ commits = <<>>
  /\ commit_list = <<>>
  /\ result = [kind |-> "None"]
  /\ in_commits = <<>>
  /\ in_package = ""
  /\ github_token \in BOOLEAN
  /\ author_github_map = [a \in {} |-> ""]
  /\ ch_pc = "idle"
  /\ idx = 1
  /\ changelog_list = <<>>
  /\ commit_hash_map = {}
  /\ emitted = <<>>
  /\ last_rest = NoRest
  /\ ch_result = [kind |-> "None"]
  /\ run_mode \in {"latest", "full"}
  /\ run_pc = "package"
  /\ pkg_idx = 1
  /\ win_idx = 1
  /\ package_md = <<>>
  /\ md_packages = <<>>
  /\ sections = <<>>
  /\ run_result = [kind |-> "None"]

NextRun ==
  \/ Run_CallGit
  \/ LatestCommits
  \/ FullCommits
  \/ AllTagRange_Overflow
  \/ AllTagRange_Loop
  \/ AllTagRange_Return
  \/ Walk_Begin
  \/ Walk_Next
  \/ Walk_Return
  \/ Run_Expect
  \/ Run_Classify
  \/ Classify_Next
  \/ Classify_Return
  \/ Run_ComposeLatest
  \/ Run_ComposeFull
  \/ Run_PackageDone
  \/ Run_Return

\* get_change_log_list and get_all_change_log_list on a repository
SpecRun == InitRun /\ [][NextRun]_vars

\* ------------------------------------------------------------------ claims
\* commits reachable from c, c included
Ancestors(c) ==
  LET RECURSIVE A(_)
      A(x) == {x} \cup UNION {A(q) : q \in parents[x]}
  IN A(c)

\* the version text of a tag name: what follows its last '@'
VersionText(t) == LET l == Split(t, "@") IN l[Len(l)]
HasVersion(t) == VersionParse(VersionText(t)) # NoVersion
VersionOfTag(t) == VersionParse(VersionText(t))

\* the repository's tags of the package whose suffix is a version
Candidates == {t \in Range(tag_names) : StartsWith(t, package_name) /\ HasVersion(t)}

\* a list a history traversal from start can yield: it begins at start, holds
\* no commit twice and every later commit is a parent of an earlier one
TraversalOrder(list, start) ==
  \/ list = <<>>
  \/ /\ list[1] = start
     /\ \A i, j \in 1..Len(list) : i # j => list[i] # list[j]
     /\ \A i \in 2..Len(list) : \E j \in 1..(i - 1) : list[i] \in parents[list[j]]

WalkReturned == pc = "walk_return"
CurrentRange == cr_list[walk_idx]

\* C1 (as amended): a walk whose end is reachable from its start returns the
\* commits in traversal order from start; the list never holds end when end
\* has a parent; when end is the root, end is in the list and the walk runs on
\* to every commit reachable from start
C1_WalkBoundary ==
  (WalkReturned /\ CurrentRange.end \in Ancestors(CurrentRange.start)) =>
    /\ TraversalOrder(commits, CurrentRange.start)
    /\ Range(commits) \subseteq Ancestors(CurrentRange.start)
    /\ parents[CurrentRange.end] # {} => CurrentRange.end \notin Range(commits)
    /\ parents[CurrentRange.end] = {} =>
         /\ CurrentRange.end \in Range(commits)
         /\ Range(commits) = Ancestors(CurrentRange.start)

\* C1 witness: a returned walk of several commits whose end is a root other
\* than the start
C1_Witness ==
  /\ WalkReturned
  /\ CurrentRange.end \in Ancestors(CurrentRange.start)
  /\ CurrentRange.end # CurrentRange.start
  /\ parents[CurrentRange.end] = {}
  /\ CurrentRange.end \in Range(commits)
  /\ Len(commits) >= 2

\* C1 (as claimed): ... and when end is the root, end is the last element of
\* the list
C1_RootEndIsLast ==
  (WalkReturned /\ CurrentRange.end \in Ancestors(CurrentRange.start)) =>
    /\ TraversalOrder(commits, CurrentRange.start)
    /\ parents[CurrentRange.end] # {} => CurrentRange.end \notin Range(commits)
    /\ parents[CurrentRange.end] = {} =>
         /\ commits # <<>>
         /\ commits[Len(commits)] = CurrentRange.end

\* get_all_tag_range has returned Ok(cr_list)
RangesReturned ==
  /\ op = "full"
  /\ \/ pc \in {"walk_begin", "walking", "walk_return"}
     \/ pc = "done" /\ result.kind = "Ok"

\* C2: for a filtered ascending tag list t1..tn, n >= 2, full-history mode
\* returns exactly n-1 windows, the i-th with tag and start t(n-i+1) and end
\* t(n-i)
C2_FullHistoryWindows ==
  (RangesReturned /\ Len(tags.value) >= 2) =>
    LET n == Len(tags.value)
    IN /\ Len(cr_list) = n - 1
       /\ \A i \in 1..(n - 1) :
            /\ cr_list[i].latest_tag.name = tags.value[n - i + 1]
            /\ cr_list[i].start = tag_target[tags.value[n - i + 1]]
            /\ cr_list[i].end = tag_target[tags.value[n - i]]

\* C2 witness: three tags have been paired into two windows
C2_Witness ==
  /\ RangesReturned
  /\ Len(tags.value) = 3
  /\ Len(cr_list) = 2
  /\ cr_list[1].latest_tag.name = "@p@1.10.0"
  /\ cr_list[2].latest_tag.name = "@p@1.2.0"

\* C3 (as claimed): full-history mode pairs every tag, the oldest against the
\* root; a package with exactly one tag yields exactly one window, for that tag
C3_EveryTagPaired ==
  RangesReturned =>
    /\ Len(cr_list) = Len(tags.value)
    /\ \A i \in 1..Len(tags.value) :
         \E k \in 1..Len(cr_list) : cr_list[k].latest_tag.name = tags.value[i]

\* get_commit_latest_range has just returned, without a panic
LatestResolved ==
  /\ op = "latest"
  /\ \/ pc = "walk_begin" /\ walk_idx = 1
     \/ pc = "done" /\ result.kind = "Err"
  /\ tags.kind = "Ok"

\* latest_commits is past its range resolution with a window
LatestWindowed == op = "latest" /\ tags.kind = "Ok" /\ Len(cr_list) = 1

\* C4: latest mode returns exactly one window, from the tag of greatest
\* version to the tag of second-greatest version when there are two; with no
\* tag of the package it returns NoTags and no window
C4_LatestWindow ==
  LatestResolved =>
    IF Candidates = {}
    THEN result = ErrNoTags /\ cr_list = <<>> /\ pc = "done"
    ELSE /\ Len(cr_list) = 1
         /\ LET w == cr_list[1]
                t == w.latest_tag.name
                others == Candidates \ {t}
            IN /\ t \in Candidates
               /\ \A u \in Candidates : VersionLeq(VersionOfTag(u), VersionOfTag(t))
               /\ w.start = tag_target[t]
               /\ others # {} =>
                    \E e \in others :
                      /\ w.end = tag_target[e]
                      /\ \A u \in others : VersionLeq(VersionOfTag(u), VersionOfTag(e))

\* C4 witness: latest mode resolved a window among tags whose refname order
\* differs from their version order
C4_Witness ==
  /\ LatestResolved
  /\ {"@p@1.10.0", "@p@1.2.0", "@p@1.0.0"} \subseteq Candidates
  /\ Len(cr_list) = 1
  /\ cr_list[1].latest_tag.name = "@p@1.10.0"
  /\ cr_list[1].end = tag_target["@p@1.2.0"]

\* C5 (as claimed): with exactly one tag whose commit has a parent, the latest
\* window's end is a direct ancestor of its start, not the start itself, and
\* the walk over the window returns at least the start commit
C5_SingleTagEndIsAncestor ==
  (/\ LatestWindowed
   /\ Len(tags.value) = 1
   /\ parents[cr_list[1].start] # {}) =>
    /\ cr_list[1].end # cr_list[1].start
    /\ cr_list[1].end \in Ancestors(cr_list[1].start)
    /\ WalkReturned => (commits # <<>> /\ commits[1] = cr_list[1].start)

\* C6 (as claimed): computing the filtered tag list never panics; the list
\* holds exactly the prefixed tags whose suffix is a version, ascending
C6_TagIndexTotal ==
  pc # "start" =>
    /\ tags.kind = "Ok"
    /\ Range(tags.value) = Candidates
    /\ \A i, j \in 1..Len(tags.value) :
         i < j => VersionLeq(VersionOfTag(tags.value[i]), VersionOfTag(tags.value[j]))

\* the part of C6 that holds: a tag list that is computed is exact and sorted
TagIndexExactWhenComputed ==
  (pc # "start" /\ tags.kind = "Ok") =>
    /\ Range(tags.value) = Candidates
    /\ Len(tags.value) = Cardinality(Candidates)
    /\ \A i, j \in 1..Len(tags.value) :
         i < j => VersionLeq(VersionOfTag(tags.value[i]), VersionOfTag(tags.value[j]))

\* gen_change_log_by_commit_list has returned Ok(changelog_list)
ClassifierReturned == ch_pc = "done" /\ ch_result.kind = "Ok"

EndsWith(s, suffix) ==
  Len(suffix) <= Len(s) /\ SubSeq(s, Len(s) - Len(suffix) + 1, Len(s)) = suffix

\* C7: the classifier's output holds at most one entry per commit hash, and
\* the entries are in the order of the first occurrences of their commits in
\* the input
C7_DedupAndOrder ==
  ClassifierReturned =>
    /\ Len(changelog_list) = Len(emitted)
    /\ \A a \in 1..Len(emitted) :
         /\ emitted[a] \in 1..Len(in_commits)
         /\ StartsWith(changelog_list[a],
                       Trim(FirstLine(in_commits[emitted[a]].message)) \o ". ")
         /\ \A j \in 1..(emitted[a] - 1) :
              in_commits[j].hash # in_commits[emitted[a]].hash
    /\ \A a, b \in 1..Len(emitted) :
         a < b => /\ emitted[a] < emitted[b]
                  /\ in_commits[emitted[a]].hash # in_commits[emitted[b]].hash

\* C7 witness: a commit given twice around another emitted commit comes out once
C7_Witness ==
  /\ ClassifierReturned
  /\ Len(in_commits) = 3
  /\ in_commits[1].hash = in_commits[3].hash
  /\ emitted = <<1, 2>>
  /\ Len(changelog_list) = 2

\* the line is a header `fix(<s>): ...` or `feat(<s>): ...` whose scope <s>
\* equals the package ignoring letter case
IsHeaderFor(line, package) ==
  \E ty \in {"fix", "feat"} :
    /\ StartsWith(line, ty \o "(")
    /\ \E k \in (Len(ty) + 2)..Len(line) :
         /\ Ch(line, k) = ")"
         /\ Ch(line, k + 1) = ":"
         /\ \A j \in (Len(ty) + 2)..(k - 1) : Ch(line, j) \notin {"(", ")"}
         /\ ToLower(SubSeq(line, Len(ty) + 2, k - 1)) = ToLower(package)

\* C8 (as claimed): every input commit whose first line is a fix/feat header
\* scoped to the package, ignoring letter case, is emitted
C8_ScopedHeaderEmitted ==
  ClassifierReturned =>
    \A i \in 1..Len(in_commits) :
      IsHeaderFor(FirstLine(in_commits[i].message), in_package) =>
        \E a \in 1..Len(emitted) :
          in_commits[emitted[a]].hash = in_commits[i].hash

\* the loop pass being taken made a REST lookup and got this response
LookupPass(response) == ch_pc = "loop" /\ last_rest' = response

\* C9 (as claimed): when the REST lookup for an uncached author fails in any
\* way, the raw author string is the handle, the cache is unchanged and no
\* panic reaches the caller
C9_LookupFailureFallsBack ==
  [][(LookupPass(SendFailed) \/ LookupPass(JsonFailed)) =>
       LET author == in_commits[idx].author.name
       IN /\ ch_result'.kind # "Panic"
          /\ author_github_map' = author_github_map
          /\ Len(changelog_list') = Len(changelog_list) + 1
          /\ EndsWith(changelog_list'[Len(changelog_list')],
                      "[@" \o author \o "](https://github.com/" \o author \o ")")]_vars

\* the digits of a text
KeepDigits(s) ==
  LET RECURSIVE F(_)
      F(i) == IF i > Len(s) THEN ""
              ELSE (IF IsDigit(Ch(s, i)) THEN Ch(s, i) ELSE "") \o F(i + 1)
  IN F(1)

\* C10 (as claimed): for a first line holding `(#<digits>)` and a successful
\* lookup returning login L the entry is
\* `<message>. [<pr-ref>](<repo-url>/pull/<id>) [@L](https://github.com/L)`
\* with <id> the bare digits
C10_PullRequestEntry ==
  [][(\E l \in Logins : LookupPass(Pull(l))) =>
       LET message == Trim(FirstLine(in_commits[idx].message))
           id == KeepDigits(PrCapture(message))
           L == last_rest'.login
       IN \E ref \in {id, "#" \o id, "(#" \o id \o ")"} :
            changelog_list' =
              Append(changelog_list,
                     message \o ". [" \o ref \o "](" \o github_html_url \o "/pull/"
                     \o id \o ") [@" \o L \o "](https://github.com/" \o L \o ")")]_vars

\* the loop pass being taken calls get_pr_user_name for this author and the
\* call returns
ResolverCall(author) ==
  /\ ch_pc = "loop"
  /\ idx <= Len(in_commits)
  /\ in_commits[idx].author = Author(author)
  /\ PrIsMatch(Trim(FirstLine(in_commits[idx].message)))
  /\ Len(changelog_list') = Len(changelog_list) + 1

\* the handle an entry with a pull request ends with
HandleOf(entry) ==
  LET at == CHOOSE i \in 1..(Len(entry) - 1) :
              /\ SubSeq(entry, i, i + 1) = "[@"
              /\ \A j \in (i + 1)..(Len(entry) - 1) :
                   SubSeq(entry, j, j + 1) # "[@"
      close == CHOOSE k \in (at + 2)..Len(entry) :
                 /\ Ch(entry, k) = "]"
                 /\ \A j \in (at + 2)..(k - 1) : Ch(entry, j) # "]"
  IN SubSeq(entry, at + 2, close - 1)

\* positions of the entries already emitted by resolver calls for this author
EarlierCalls(author) ==
  {a \in 1..Len(emitted) :
     /\ in_commits[emitted[a]].author = Author(author)
     /\ PrIsMatch(Trim(FirstLine(in_commits[emitted[a]].message)))}

Authors == {c.author.name : c \in {d \in CommitUniverse : d.author.some}}

\* C11 (as claimed): after the first resolver call for an author every later
\* call for that author makes no REST lookup and returns the handle of the
\* first call, and cached entries are never overwritten or removed
C11_NoLookupAfterFirstCall ==
  [][\A author \in Authors :
       /\ (ResolverCall(author) /\ EarlierCalls(author) # {}) =>
            LET first == CHOOSE a \in EarlierCalls(author) :
                           \A b \in EarlierCalls(author) : a <= b
            IN /\ last_rest' = NoRest
               /\ HandleOf(changelog_list'[Len(changelog_list')])
                    = HandleOf(changelog_list[first])
       /\ author \in DOMAIN author_github_map =>
            /\ author \in DOMAIN author_github_map'
            /\ author_github_map'[author] = author_github_map[author]]_vars

\* C11 (amended): once an author is cached every later resolver call for
\* that author makes no REST lookup and returns the cached handle whatever
\* the pull-request id, and cached entries are never overwritten or removed
C11_NoLookupOnceCached ==
  [][\A author \in Authors :
       author \in DOMAIN author_github_map =>
         /\ ResolverCall(author) =>
              /\ last_rest' = NoRest
              /\ HandleOf(changelog_list'[Len(changelog_list')])
                   = author_github_map[author]
         /\ author \in DOMAIN author_github_map'
         /\ author_github_map'[author] = author_github_map[author]]_vars

\* two pull requests of one author resolved in one run, the second from the
\* cache
C11_Witness ==
  /\ Len(emitted) = 2
  /\ in_commits[emitted[1]].author = in_commits[emitted[2]].author
  /\ in_commits[emitted[1]].author.some
  /\ in_commits[emitted[1]].hash # in_commits[emitted[2]].hash
  /\ PrIsMatch(Trim(FirstLine(in_commits[emitted[1]].message)))
  /\ PrIsMatch(Trim(FirstLine(in_commits[emitted[2]].message)))
  /\ idx = emitted[2] + 1
  /\ last_rest = NoRest
  /\ in_commits[emitted[1]].author.name \in DOMAIN author_github_map
  /\ HandleOf(changelog_list[2]) = HandleOf(changelog_list[1])
  /\ HandleOf(changelog_list[2]) \in Logins

\* the text is exactly one bullet line
IsOneBulletLine(text) ==
  /\ Len(text) > 3
  /\ StartsWith(text, "* ")
  /\ Ch(text, Len(text)) = "\n"
  /\ \A j \in 1..(Len(text) - 1) : Ch(text, j) # "\n"

\* C12 (as claimed): a release window whose classified entry list is empty
\* is rendered with a body of exactly one placeholder bullet line
C12_EmptyWindowPlaceholder ==
  \A i \in 1..Len(sections) :
    sections[i].entries = <<>> => IsOneBulletLine(sections[i].body)

\* `* <e>` and a newline for each entry, in order
BulletLines(entries) ==
  LET RECURSIVE F(_)
      F(i) == IF i > Len(entries) THEN ""
              ELSE "* " \o entries[i] \o "\n" \o F(i + 1)
  IN F(1)

\* C13 (as claimed): for every package and every window with tag T and at
\* least one entry the rendered section is `## <T.name>`, a blank line, the
\* release date between grave accents, a blank line, then the bullet lines
C13_SectionFormat ==
  \A i \in 1..Len(sections) :
    LET sec == sections[i]
    IN Len(sec.entries) >= 1 =>
         sec.text = "## " \o sec.tag.name \o "\n\n" \o Backtick
                    \o DateText(sec.tag.date_time) \o Backtick \o "\n\n"
                    \o BulletLines(sec.entries)

\* the package has a tag matching its scope
HasTags(package) ==
  \E i \in 1..Len(tag_names) :
    StartsWith(tag_names[i], package_prefix \o package)

\* C14 (as claimed): in both modes a package without tags does not abort the
\* run: the run never ends in a panic at such a package, and when it is over
\* every package that has tags has its document
C14_NoTagsIsolated ==
  run_pc = "done" =>
    /\ run_result.kind = "Panic" => HasTags(package_list[pkg_idx])
    /\ run_result.kind = "Ok" =>
         \A k \in 1..Len(package_list) :
           HasTags(package_list[k]) =>
             \E d \in 1..Len(md_packages) :
               md_packages[d].package = package_list[k]

\* the commits the walk has yielded
Yielded == seen \ Range(revwalk)

C16_AbsentAuthorTolerated ==
  (/\ ch_pc = "done"
   /\ idx <= Len(in_commits)
   /\ ~in_commits[idx].author.some) => ch_result.kind # "Panic"

====
